---- MODULE Spec2Model ----
(***************************************************************************)
(* The task aggregate of the to-do backend: the Task collection, the task  *)
(* controller's request handlers, the schema's pre-save hook and the       *)
(* notification service's sweep (checkAndSendNotifications).               *)
(*                                                                         *)
(* Time is counted in days: one tick of `now` is 24 hours, so the sweep's  *)
(* window [now, now + 24h] is [now, now + Day].  A request handler runs    *)
(* as one step (load, mutate, save).  A sweep run is several steps: its    *)
(* scan, and per task the mail dispatch and the flag write, because the    *)
(* run awaits the mailer and the store between them and requests and      *)
(* other runs are served meanwhile.                                        *)
(***************************************************************************)
EXTENDS Integers, Sequences, FiniteSets, TLC

\* ----------------------------------------------------------------- bounds
MaxTasks == 2          \* task documents ever created
MaxSubtasks == 2       \* subtasks ever created in one task
MaxTime == 1           \* last value of the clock
ListSize == 15         \* tasks of a store that is listed page by page

\* --------------------------------------------------------------- constants
Day == 1               \* 24 * 60 * 60 * 1000 ms, the unit of time

Users == {"A", "B"}    \* authenticated, active accounts
\* two invocations of a handler that the server runs at the same time
Handlers == {"first", "second"}
Runs == {"cron", "manual"}  \* cron.schedule's run and triggerNotificationCheck's
TaskIds == 1..MaxTasks
SubIds == 1..MaxSubtasks
NoDate == 0 - 1        \* due_date absent
Dates == 0..(MaxTime + Day)
Opt(S) == {<<>>} \cup {<<x>> : x \in S}   \* an optional field of a request body

VARIABLES
  tasks,      \* the Task collection: task id -> document
  nextId,     \* the next task id the store hands out
  nextSubId,  \* task id -> the next subtask id of that task
  now,        \* the clock (new Date())
  resp,       \* the response of the latest request
  runs,       \* sweep run -> [pc, queue]: the position of checkAndSendNotifications
  mailed,     \* task id -> mails the Mailer accepted for it (2 = two or more)
  pending     \* request in flight -> the document it loaded and has not saved yet

vars == <<tasks, nextId, nextSubId, now, resp, runs, mailed, pending>>

Exists(id) == id \in DOMAIN tasks

\* ------------------------------------------------------------- responses
Response(status, message) == [status |-> status, message |-> message]
TaskNotFound == Response(404, "Task not found")
SubtaskNotFound == Response(404, "Subtask not found")
ValidationFailed == Response(400, "Validation failed")
NoResponse == Response(0, "")

\* ------------------------------------------------------------ Task model
AllCompleted(subtasks) ==
  \A i \in 1..Len(subtasks) : subtasks[i].is_completed

\* taskSchema.pre("save")
Mut_preSave_never(doc) == doc
Mut_preSave_any(doc) ==
  IF \E i \in 1..Len(doc.subtasks) : doc.subtasks[i].is_completed
  THEN [doc EXCEPT !.is_completed = TRUE]
  ELSE doc
Mut_preSave_uncomplete(doc) ==
  IF Len(doc.subtasks) > 0
  THEN [doc EXCEPT !.is_completed = AllCompleted(doc.subtasks)]
  ELSE doc
preSave(doc) ==
  IF Len(doc.subtasks) > 0 /\ AllCompleted(doc.subtasks)
  THEN [doc EXCEPT !.is_completed = TRUE]
  ELSE doc

\* subtasks.id(subtaskId): the position of the first subtask with that id, 0
\* if none
Mut_SubtaskIndex_first(subtasks, sid) == IF Len(subtasks) > 0 THEN 1 ELSE 0
SubtaskIndex(subtasks, sid) ==
  IF \E i \in 1..Len(subtasks) : subtasks[i].id = sid
  THEN CHOOSE i \in 1..Len(subtasks) :
         /\ subtasks[i].id = sid
         /\ \A j \in 1..(i - 1) : subtasks[j].id # sid
  ELSE 0

\* subtasks.pull(subtaskId)
Mut_Pull_first(subtasks, sid) == Tail(subtasks)
Pull(subtasks, sid) ==
  SelectSeq(subtasks, LAMBDA s : s.id # sid)

\* Task.findOne({_id, user_id})
Mut_findOne_anyOwner(id, userId) == Exists(id)
findOne(id, userId) ==
  Exists(id) /\ tasks[id].user_id = userId

\* validateTask's custom rule on body("due_date"), and the schema's validator
\* for a new document: a due date that is present must not lie before now
Mut_DueDateValid_any(due) == TRUE
DueDateValid(due) == due = <<>> \/ due[1] >= now

\* isLength({ min: 1, max: 200 }) of validateTask and validateSubtask
TitleMax == 200

\* A title as the body carries it: none (<<>>), or a string of which only the
\* lengths matter, chars characters from the first to the last that is not
\* whitespace, and pad whitespace characters around them.
Titles == Opt([pad : 0..1, chars : {0, 1, TitleMax, TitleMax + 1}])

\* body("title").trim(): the length of what is left (a missing title is "")
Trim(title) == IF title = <<>> THEN 0 ELSE title[1].chars

\* body("title").trim().isLength({ min: 1, max: 200 })
Mut_TitleValid_untrimmed(title) ==
  LET len == IF title = <<>> THEN 0 ELSE title[1].pad + title[1].chars
  IN len >= 1 /\ len <= TitleMax
TitleValid(title) == Trim(title) >= 1 /\ Trim(title) <= TitleMax

\* the ids of a set of tasks in the store's natural (insertion) order
RECURSIVE NaturalOrder(_)
NaturalOrder(S) ==
  IF S = {} THEN <<>>
  ELSE LET m == CHOOSE x \in S : \A y \in S : x <= y
       IN <<m>> \o NaturalOrder(S \ {m})

Reverse(seq) == [i \in 1..Len(seq) |-> seq[Len(seq) + 1 - i]]

\* --------------------------------------------------------------- queries
\* taskSchema.statics.findByUserWithFilters: the query, the sort on
\* createdAt (newest first unless sort_by = created_at and sort_order = asc)
\* and the page
\* the characters of titles, descriptions and search strings
Chars == {"a", "B", "."}
Lower(c) == IF c = "B" THEN "b" ELSE c

\* the strings of at most n characters
Texts(n) == UNION {[1..k -> Chars] : k \in 0..n}

\* { $regex: pattern, $options: "i" } on a field: the pattern matches somewhere
\* in the text, "." standing for any character and every other character for
\* itself in either case
RegexMatches(text, pattern) ==
  \E k \in 0..(Len(text) - Len(pattern)) :
    \A i \in 1..Len(pattern) :
      pattern[i] = "." \/ Lower(text[k + i]) = Lower(pattern[i])

Priorities == {"Low", "Medium", "High"}

Mut_MatchesFilters_noOwner(id, userId, filters) ==
  /\ Exists(id)
  /\ filters.is_completed # <<>> => tasks[id].is_completed = filters.is_completed[1]
  /\ filters.priority # <<>> => tasks[id].priority = filters.priority[1]
MatchesFilters(id, userId, filters) ==
  /\ Exists(id)
  /\ tasks[id].user_id = userId
  /\ filters.is_completed # <<>> => tasks[id].is_completed = filters.is_completed[1]
  /\ filters.priority # <<>> => tasks[id].priority = filters.priority[1]
  /\ filters.due_date_from # <<>> =>
       tasks[id].due_date # NoDate /\ tasks[id].due_date >= filters.due_date_from[1]
  /\ filters.due_date_to # <<>> =>
       tasks[id].due_date # NoDate /\ tasks[id].due_date <= filters.due_date_to[1]
  /\ filters.search # <<>> =>
       \/ RegexMatches(tasks[id].title, filters.search[1])
       \/ RegexMatches(tasks[id].description, filters.search[1])

\* sort(sortOptions): the ids of S by ascending (dir = 1) or descending
\* (dir = -1) key; tasks with equal keys are left in natural order
RECURSIVE SortedBy(_, _, _)
SortedBy(S, key, dir) ==
  IF S = {} THEN <<>>
  ELSE LET m == CHOOSE x \in S : \A y \in S :
                  \/ dir * key[x] < dir * key[y]
                  \/ key[x] = key[y] /\ x <= y
       IN <<m>> \o SortedBy(S \ {m}, key, dir)

\* the order of the priority strings: "High" < "Low" < "Medium"
Mut_PriorityRank_severity(priority) ==
  CASE priority = "Low" -> 1 [] priority = "Medium" -> 2 [] priority = "High" -> 3
PriorityRank(priority) ==
  CASE priority = "High" -> 1 [] priority = "Low" -> 2 [] priority = "Medium" -> 3

\* the switch on filters.sort_by and the default sort
Sorted(found, filters) ==
  LET key == [id \in found |->
                CASE filters.sort_by = "due_date" -> tasks[id].due_date
                  [] filters.sort_by = "priority" -> PriorityRank(tasks[id].priority)
                  [] OTHER -> id]
      dir == IF filters.sort_by = "" \/ filters.sort_order = "desc" THEN 0 - 1 ELSE 1
  IN SortedBy(found, key, dir)

Mut_findByUserWithFilters_skipPage(userId, filters) ==
  LET sorted == Sorted({id \in DOMAIN tasks : MatchesFilters(id, userId, filters)}, filters)
      skip == filters.page * filters.limit
  IN SubSeq(sorted, skip + 1,
            IF skip + filters.limit < Len(sorted) THEN skip + filters.limit
            ELSE Len(sorted))
findByUserWithFilters(userId, filters) ==
  LET sorted == Sorted({id \in DOMAIN tasks : MatchesFilters(id, userId, filters)}, filters)
      skip == (filters.page - 1) * filters.limit
  IN SubSeq(sorted, skip + 1,
            IF skip + filters.limit < Len(sorted) THEN skip + filters.limit
            ELSE Len(sorted))

\* the filters a listing request is tried with
Filters ==
  [is_completed : Opt(BOOLEAN), priority : Opt(Priorities),
   due_date_from : Opt({0}), due_date_to : Opt({0}),
   search : Opt(Texts(1) \ {<<>>}),
   sort_by : {"", "created_at"}, sort_order : {"asc", "desc"},
   page : 1..2, limit : 1..2]

\* getTasks: the page and the pagination block
Mut_getTasksData_filteredCount(userId, filters) ==
  LET totalTasks == Cardinality({id \in DOMAIN tasks : MatchesFilters(id, userId, filters)})
      totalPages == (totalTasks + filters.limit - 1) \div filters.limit
  IN [tasks |-> findByUserWithFilters(userId, filters),
      totalTasks |-> totalTasks, totalPages |-> totalPages,
      hasNextPage |-> filters.page < totalPages,
      hasPrevPage |-> filters.page > 1]
getTasksData(userId, filters) ==
  LET totalTasks == Cardinality({id \in DOMAIN tasks : tasks[id].user_id = userId})
      totalPages == (totalTasks + filters.limit - 1) \div filters.limit
  IN [tasks |-> findByUserWithFilters(userId, filters),
      totalTasks |-> totalTasks, totalPages |-> totalPages,
      hasNextPage |-> filters.page < totalPages,
      hasPrevPage |-> filters.page > 1]

\* taskSchema.virtual("isOverdue")
isOverdue(id) ==
  /\ tasks[id].due_date # NoDate
  /\ tasks[id].due_date < now
  /\ ~tasks[id].is_completed

\* getTaskStats, the $cond of overdueTasks.  A task created without due_date
\* has no such field in its document, and in an aggregation expression a
\* missing field compares below every date and is not equal to null: for it
\* $lt: ["$due_date", new Date()] and $ne: ["$due_date", null] both hold.
StatsOverdue(id) ==
  /\ tasks[id].due_date = NoDate \/ tasks[id].due_date < now
  /\ ~tasks[id].is_completed
  /\ TRUE

\* getTaskStats: the $match on user_id and the $group's counters
StatsMatch(userId) == {id \in DOMAIN tasks : tasks[id].user_id = userId}

Mut_getTaskStatsData_anySubtask(userId) ==
  LET mine == StatsMatch(userId)
      started == {id \in mine :
                   \/ tasks[id].is_completed
                   \/ \E i \in 1..Len(tasks[id].subtasks) :
                        tasks[id].subtasks[i].is_completed}
  IN [totalTasks |-> Cardinality(mine),
      completedTasks |-> Cardinality(started),
      pendingTasks |-> Cardinality(mine \ started),
      overdueTasks |-> Cardinality({id \in mine : StatsOverdue(id)})]
getTaskStatsData(userId) ==
  LET mine == StatsMatch(userId)
  IN [totalTasks |-> Cardinality(mine),
      completedTasks |-> Cardinality({id \in mine : tasks[id].is_completed}),
      pendingTasks |-> Cardinality({id \in mine : ~tasks[id].is_completed}),
      overdueTasks |-> Cardinality({id \in mine : StatsOverdue(id)})]

\* getTasksDueToday: due in [today, tomorrow), not completed, sorted by due_date
getTasksDueTodayData(userId) ==
  NaturalOrder({id \in DOMAIN tasks :
    /\ tasks[id].user_id = userId
    /\ tasks[id].due_date # NoDate
    /\ tasks[id].due_date >= now
    /\ tasks[id].due_date < now + Day
    /\ ~tasks[id].is_completed})

\* taskSchema.statics.findOverdueTasks
findOverdueTasks ==
  {id \in DOMAIN tasks :
    /\ tasks[id].due_date # NoDate
    /\ tasks[id].due_date < now
    /\ ~tasks[id].is_completed
    /\ ~tasks[id].notification_sent}

\* the sweep's query: due within [now, now + 24h], not completed, not notified
Mut_DueSoon_anyFlag ==
  {id \in DOMAIN tasks :
    /\ tasks[id].due_date # NoDate
    /\ tasks[id].due_date >= now
    /\ tasks[id].due_date <= now + Day
    /\ ~tasks[id].is_completed}
Mut_DueSoon_pastDue ==
  {id \in DOMAIN tasks :
    /\ tasks[id].due_date # NoDate
    /\ tasks[id].due_date <= now + Day
    /\ ~tasks[id].is_completed
    /\ ~tasks[id].notification_sent}
DueSoon ==
  {id \in DOMAIN tasks :
    /\ tasks[id].due_date # NoDate
    /\ tasks[id].due_date >= now
    /\ tasks[id].due_date <= now + Day
    /\ ~tasks[id].is_completed
    /\ ~tasks[id].notification_sent}

\* -------------------------------------------------------------- requests
StoreUnchanged == UNCHANGED <<tasks, nextId, nextSubId, mailed>>
Reply(r) == resp' = r /\ UNCHANGED <<now, runs, pending>>

\* task.save() of a loaded document: the pre-save hook, then the write
Save(id, doc) == tasks' = [tasks EXCEPT ![id] = preSave(doc)]

\* the subtasks of a new document: req.body.subtasks cast by subtaskSchema.  An
\* element keeps the _id the body gives it; without one it gets a fresh id.
\* ids = <<>> is a body whose elements carry no _id.
NewSubtasks(flags, ids) ==
  [i \in 1..Len(flags) |->
     [id |-> IF ids = <<>> THEN i ELSE ids[i], is_completed |-> flags[i]]]

\* the id after the greatest id among new subtasks
FreshSubId(flags, ids) ==
  IF ids = <<>> THEN Len(flags) + 1
  ELSE 1 + CHOOSE m \in {ids[i] : i \in 1..Len(ids)} :
             \A i \in 1..Len(ids) : ids[i] <= m

SubtaskFlags == UNION {[1..n -> BOOLEAN] : n \in 0..MaxSubtasks}

\* the _id values a body gives its subtasks: none, or one for each
BodyIds(flags) ==
  IF flags = <<>> THEN {<<>>} ELSE {<<>>} \cup [1..Len(flags) -> SubIds]

\* POST /api/tasks: validateTask, then createTask (Task.create)
createTask(u, bodyOk, due, flags, ids) ==
  IF ~bodyOk \/ ~DueDateValid(due)
  THEN Reply(ValidationFailed) /\ StoreUnchanged
  ELSE /\ nextId <= MaxTasks
       /\ tasks' = tasks @@ (nextId :> preSave(
            [user_id |-> u,
             title |-> <<"a">>,
             description |-> <<>>,
             priority |-> "Low",
             is_completed |-> FALSE,
             due_date |-> IF due = <<>> THEN NoDate ELSE due[1],
             subtasks |-> NewSubtasks(flags, ids),
             notification_sent |-> FALSE]))
       /\ nextId' = nextId + 1
       /\ nextSubId' = [nextSubId EXCEPT ![nextId] = FreshSubId(flags, ids)]
       /\ Reply(Response(201, "Task created successfully"))
       /\ UNCHANGED mailed

\* GET /api/tasks/:id
getTask(u, id) ==
  /\ Reply(IF findOne(id, u) THEN Response(200, "") ELSE TaskNotFound)
  /\ StoreUnchanged

\* GET /api/tasks, /api/tasks/stats, /api/tasks/due-today: the data returned is
\* getTasksData, getTaskStatsData, getTasksDueTodayData
getTasks(u, filters) == Reply(Response(200, "")) /\ StoreUnchanged
getTaskStats(u) == Reply(Response(200, "")) /\ StoreUnchanged
getTasksDueToday(u) == Reply(Response(200, "")) /\ StoreUnchanged

\* the fields updateTask assigns from the body
Mut_UpdatedDoc_cascade(doc, due, done) ==
  [doc EXCEPT
     !.due_date = IF due = <<>> THEN @ ELSE due[1],
     !.is_completed = IF done = <<>> THEN @ ELSE done[1],
     !.subtasks = IF done = <<>> THEN @
                  ELSE [i \in 1..Len(@) |-> [@[i] EXCEPT !.is_completed = done[1]]]]
Mut_UpdatedDoc_owner(doc, due, done) ==
  [doc EXCEPT
     !.due_date = IF due = <<>> THEN @ ELSE due[1],
     !.is_completed = IF done = <<>> THEN @ ELSE done[1],
     !.user_id = IF done = <<>> THEN @ ELSE "B"]
UpdatedDoc(doc, due, done) ==
  [doc EXCEPT
     !.due_date = IF due = <<>> THEN @ ELSE due[1],
     !.is_completed = IF done = <<>> THEN @ ELSE done[1]]

\* PUT /api/tasks/:id: validateTask, then updateTask
updateTask(u, id, bodyOk, due, done) ==
  IF ~bodyOk \/ ~DueDateValid(due)
  THEN Reply(ValidationFailed) /\ StoreUnchanged
  ELSE IF ~findOne(id, u)
  THEN Reply(TaskNotFound) /\ StoreUnchanged
  ELSE /\ Save(id, UpdatedDoc(tasks[id], due, done))
       /\ mailed' = IF due # <<>> /\ due[1] # tasks[id].due_date
                    THEN [mailed EXCEPT ![id] = 0] ELSE mailed
       /\ Reply(Response(200, "Task updated successfully"))
       /\ UNCHANGED <<nextId, nextSubId>>

\* DELETE /api/tasks/:id
Mut_deleteTask_soft(u, id) ==
  IF ~findOne(id, u)
  THEN Reply(TaskNotFound) /\ StoreUnchanged
  ELSE /\ Reply(Response(200, "Task deleted successfully"))
       /\ StoreUnchanged
deleteTask(u, id) ==
  IF ~findOne(id, u)
  THEN Reply(TaskNotFound) /\ StoreUnchanged
  ELSE /\ tasks' = [t \in DOMAIN tasks \ {id} |-> tasks[t]]
       /\ nextSubId' = [nextSubId EXCEPT ![id] = 1]
       /\ mailed' = [mailed EXCEPT ![id] = 0]
       /\ Reply(Response(200, "Task deleted successfully"))
       /\ UNCHANGED nextId

\* PATCH /api/tasks/:id/toggle-completion
Mut_toggleTaskCompletion_complete(u, id) ==
  IF ~findOne(id, u)
  THEN Reply(TaskNotFound) /\ StoreUnchanged
  ELSE /\ Save(id, [tasks[id] EXCEPT !.is_completed = TRUE])
       /\ Reply(Response(200, ""))
       /\ UNCHANGED <<nextId, nextSubId, mailed>>
toggleTaskCompletion(u, id) ==
  IF ~findOne(id, u)
  THEN Reply(TaskNotFound) /\ StoreUnchanged
  ELSE /\ Save(id, [tasks[id] EXCEPT !.is_completed = ~@])
       /\ Reply(Response(200, ""))
       /\ UNCHANGED <<nextId, nextSubId, mailed>>

\* POST /api/tasks/:id/subtasks: validateSubtask, then addSubtask
addSubtask(u, id, bodyOk, done) ==
  IF ~bodyOk
  THEN Reply(ValidationFailed) /\ StoreUnchanged
  ELSE IF ~findOne(id, u)
  THEN Reply(TaskNotFound) /\ StoreUnchanged
  ELSE /\ nextSubId[id] <= MaxSubtasks
       /\ Save(id, [tasks[id] EXCEPT !.subtasks =
            Append(@, [id |-> nextSubId[id], is_completed |-> done])])
       /\ nextSubId' = [nextSubId EXCEPT ![id] = @ + 1]
       /\ Reply(Response(201, "Subtask added successfully"))
       /\ UNCHANGED <<nextId, mailed>>

\* PUT /api/tasks/:taskId/subtasks/:subtaskId: validateSubtask, then updateSubtask
updateSubtask(u, id, sid, bodyOk, done) ==
  IF ~bodyOk
  THEN Reply(ValidationFailed) /\ StoreUnchanged
  ELSE IF ~findOne(id, u)
  THEN Reply(TaskNotFound) /\ StoreUnchanged
  ELSE IF SubtaskIndex(tasks[id].subtasks, sid) = 0
  THEN Reply(SubtaskNotFound) /\ StoreUnchanged
  ELSE /\ Save(id, [tasks[id] EXCEPT
            !.subtasks[SubtaskIndex(tasks[id].subtasks, sid)].is_completed =
               IF done = <<>> THEN @ ELSE done[1]])
       /\ Reply(Response(200, "Subtask updated successfully"))
       /\ UNCHANGED <<nextId, nextSubId, mailed>>

\* DELETE /api/tasks/:taskId/subtasks/:subtaskId
deleteSubtask(u, id, sid) ==
  IF ~findOne(id, u)
  THEN Reply(TaskNotFound) /\ StoreUnchanged
  ELSE IF SubtaskIndex(tasks[id].subtasks, sid) = 0
  THEN Reply(SubtaskNotFound) /\ StoreUnchanged
  ELSE /\ Save(id, [tasks[id] EXCEPT !.subtasks = Pull(@, sid)])
       /\ Reply(Response(200, "Subtask deleted successfully"))
       /\ UNCHANGED <<nextId, nextSubId, mailed>>

\* PATCH /api/tasks/:taskId/subtasks/:subtaskId/toggle
toggleSubtaskCompletion(u, id, sid) ==
  IF ~findOne(id, u)
  THEN Reply(TaskNotFound) /\ StoreUnchanged
  ELSE IF SubtaskIndex(tasks[id].subtasks, sid) = 0
  THEN Reply(SubtaskNotFound) /\ StoreUnchanged
  ELSE /\ Save(id, [tasks[id] EXCEPT
            !.subtasks[SubtaskIndex(tasks[id].subtasks, sid)].is_completed = ~@])
       /\ Reply(Response(200, "Subtask completion status toggled successfully"))
       /\ UNCHANGED <<nextId, nextSubId, mailed>>

\* toggleSubtaskCompletion as the server runs it, in two steps with other
\* requests in between.  The first, up to the await of task.save(): the
\* document is loaded, and the handler returns at once if the task or the
\* subtask is not found.
LoadToggle(q, u, id, sid) ==
  /\ pending[q] = <<>>
  /\ IF ~findOne(id, u)
     THEN Reply(TaskNotFound) /\ StoreUnchanged
     ELSE IF SubtaskIndex(tasks[id].subtasks, sid) = 0
     THEN Reply(SubtaskNotFound) /\ StoreUnchanged
     ELSE /\ pending' = [pending EXCEPT ![q] = <<[id |-> id, sid |-> sid, doc |-> tasks[id]]>>]
          /\ resp' = NoResponse
          /\ UNCHANGED <<tasks, nextId, nextSubId, now, runs, mailed>>

\* The second: the subtask of the loaded document is flipped, the pre-save
\* hook runs on the loaded document, and the save writes the paths that
\* changed - subtasks.<i>.is_completed, and is_completed when the hook set it -
\* to the stored document.
SaveToggle(q) ==
  /\ pending[q] # <<>>
  /\ LET p == pending[q][1]
         i == SubtaskIndex(p.doc.subtasks, p.sid)
         saved == preSave([p.doc EXCEPT !.subtasks[i].is_completed = ~@])
     IN IF ~Exists(p.id)
        THEN resp' = Response(500, "Server Error") /\ UNCHANGED tasks
        ELSE /\ tasks' = [tasks EXCEPT ![p.id] =
                  [@ EXCEPT !.subtasks[i].is_completed = saved.subtasks[i].is_completed,
                            !.is_completed =
                               IF saved.is_completed # p.doc.is_completed
                               THEN saved.is_completed ELSE @]]
             /\ resp' = Response(200, "Subtask completion status toggled successfully")
  /\ pending' = [pending EXCEPT ![q] = <<>>]
  /\ UNCHANGED <<nextId, nextSubId, now, runs, mailed>>

\* ----------------------------------------------------------------- sweep
Idle == [pc |-> "idle", queue |-> <<>>]

\* populate("user_id", "email"): every account has an email and none is deleted
EmailResolvable(userId) == userId \in Users

\* the for loop moves to the next task of tasksDueSoon, or the run ends
NextTask(r) ==
  IF Len(runs[r].queue) > 1
  THEN [pc |-> "send", queue |-> Tail(runs[r].queue)]
  ELSE Idle

\* a document as the run holds it in memory: its id and the paths the run reads
\* after the scan (the owner for the mail, the paths of the pre-save hook)
Loaded(id) ==
  [id |-> id,
   doc |-> [user_id |-> tasks[id].user_id,
            is_completed |-> tasks[id].is_completed,
            subtasks |-> tasks[id].subtasks,
            notification_sent |-> tasks[id].notification_sent]]

\* checkAndSendNotifications, the scan: Task.find(...).populate(...)
Scan(r) ==
  /\ runs[r].pc = "idle"
  /\ LET found == NaturalOrder(DueSoon)
     IN runs' = [runs EXCEPT ![r] =
          IF found = <<>> THEN Idle
          ELSE [pc |-> "send",
                queue |-> [i \in 1..Len(found) |-> Loaded(found[i])]]]
  /\ resp' = NoResponse
  /\ UNCHANGED <<tasks, nextId, nextSubId, now, mailed, pending>>

\* the run after the Mailer reported failure: the error is logged and the loop
\* goes on
Mut_AfterFailure_retry(r) == runs[r]
AfterFailure(r) == NextTask(r)

\* checkAndSendNotifications, one task: await sendEmailNotification(...); ok
\* is the Mailer's answer
Send(r, ok) ==
  /\ runs[r].pc = "send"
  /\ LET head == Head(runs[r].queue)
     IN IF ~EmailResolvable(head.doc.user_id)
        THEN runs' = [runs EXCEPT ![r] = NextTask(r)] /\ UNCHANGED mailed
        ELSE IF ok
        THEN /\ mailed' = [mailed EXCEPT ![head.id] = IF @ < 2 THEN @ + 1 ELSE @]
             /\ runs' = [runs EXCEPT ![r].pc = "save"]
        ELSE runs' = [runs EXCEPT ![r] = AfterFailure(r)] /\ UNCHANGED mailed
  /\ resp' = NoResponse
  /\ UNCHANGED <<tasks, nextId, nextSubId, now, pending>>

\* the run after a task.save() that threw: the catch around the whole loop
AfterThrow(r) == Idle

\* checkAndSendNotifications, the flag write: task.notification_sent = true;
\* await task.save().  The save writes the paths the loaded document changed
\* (the flag, and is_completed when the hook set it) and throws when the
\* document is no longer in the store.
Mut_MarkSent_skip(r) ==
  /\ runs[r].pc = "save"
  /\ runs' = [runs EXCEPT ![r] = NextTask(r)]
  /\ resp' = NoResponse
  /\ UNCHANGED <<tasks, nextId, nextSubId, now, mailed, pending>>
MarkSent(r) ==
  /\ runs[r].pc = "save"
  /\ LET head == Head(runs[r].queue)
         saved == preSave([head.doc EXCEPT !.notification_sent = TRUE])
     IN IF ~Exists(head.id)
        THEN runs' = [runs EXCEPT ![r] = AfterThrow(r)] /\ UNCHANGED tasks
        ELSE /\ tasks' = [tasks EXCEPT ![head.id] =
                  [@ EXCEPT !.notification_sent = TRUE,
                            !.is_completed =
                               IF saved.is_completed # head.doc.is_completed
                               THEN saved.is_completed ELSE @]]
             /\ runs' = [runs EXCEPT ![r] = NextTask(r)]
  /\ resp' = NoResponse
  /\ UNCHANGED <<nextId, nextSubId, now, mailed, pending>>

\* time passes
Tick ==
  /\ now < MaxTime
  /\ now' = now + 1
  /\ UNCHANGED <<tasks, nextId, nextSubId, resp, runs, mailed, pending>>

\* ---------------------------------------------------------- specification
Init ==
  /\ tasks = <<>>
  /\ nextId = 1
  /\ nextSubId = [id \in TaskIds |-> 1]
  /\ now = 0
  /\ resp = NoResponse
  /\ runs = [r \in Runs |-> Idle]
  /\ mailed = [id \in TaskIds |-> 0]
  /\ pending = [q \in Handlers |-> <<>>]

\* the listing requests tried as steps (their data is checked for all of Filters)
ListingInputs ==
  [is_completed : {<<>>}, priority : {<<>>}, due_date_from : {<<>>},
   due_date_to : {<<>>}, search : {<<>>}, sort_by : {""}, sort_order : {"desc"},
   page : {1}, limit : {2}]

\* The request path: both accounts send every request of the task routes, for
\* every task id, theirs or not, stored or not.  A due date, when sent, is
\* set at creation and today's; a task is created without subtasks and gets at
\* most one; no sweep runs and the clock stands.
Request(u) ==
  \/ createTask(u, FALSE, <<>>, <<>>, <<>>)
  \/ \E due \in Opt({0}) : createTask(u, TRUE, due, <<>>, <<>>)
  \/ \E filters \in ListingInputs : getTasks(u, filters)
  \/ getTaskStats(u)
  \/ getTasksDueToday(u)
  \/ \E id \in TaskIds :
       \/ getTask(u, id)
       \/ updateTask(u, id, FALSE, <<>>, <<>>)
       \/ \E done \in Opt(BOOLEAN) : updateTask(u, id, TRUE, <<>>, done)
       \/ deleteTask(u, id)
       \/ toggleTaskCompletion(u, id)
       \/ addSubtask(u, id, FALSE, FALSE)
       \/ \E done \in BOOLEAN :
            /\ findOne(id, u) => nextSubId[id] = 1
            /\ addSubtask(u, id, TRUE, done)
       \/ \E sid \in SubIds :
            \/ updateSubtask(u, id, sid, FALSE, <<>>)
            \/ \E done \in Opt(BOOLEAN) : updateSubtask(u, id, sid, TRUE, done)
            \/ deleteSubtask(u, id, sid)
            \/ toggleSubtaskCompletion(u, id, sid)

Next == \E u \in Users : Request(u)

Spec == Init /\ [][Next]_vars

\* One task at a time: account A creates a task (due today or with no due
\* date, with or without subtasks) once the store is empty, sends every
\* saving request for it, and the cron run of the sweep proceeds meanwhile.
TaskRequest(u) ==
  \/ \E due \in Opt({0}), flags \in SubtaskFlags :
       DOMAIN tasks = {} /\ createTask(u, TRUE, due, flags, <<>>)
  \/ \E id \in TaskIds :
       \/ \E due \in Opt({0}), done \in Opt(BOOLEAN) : updateTask(u, id, TRUE, due, done)
       \/ deleteTask(u, id)
       \/ toggleTaskCompletion(u, id)
       \/ \E done \in BOOLEAN : addSubtask(u, id, TRUE, done)
       \/ \E sid \in SubIds :
            \/ \E done \in Opt(BOOLEAN) : updateSubtask(u, id, sid, TRUE, done)
            \/ deleteSubtask(u, id, sid)
            \/ toggleSubtaskCompletion(u, id, sid)

Sweep(r) ==
  \/ Scan(r)
  \/ \E ok \in BOOLEAN : Send(r, ok)
  \/ MarkSent(r)

TaskNext ==
  \/ TaskRequest("A")
  \/ Sweep("cron")

TaskSpec == Init /\ [][TaskNext]_vars

\* The sweep: account A creates tasks without subtasks, reschedules, completes
\* and deletes them while the cron run and the manually triggered run of
\* checkAndSendNotifications proceed and time passes.
SweepRequest(u) ==
  \/ \E due \in Opt(Dates) : createTask(u, TRUE, due, <<>>, <<>>)
  \/ \E id \in TaskIds :
       \/ \E due \in Dates : updateTask(u, id, TRUE, <<due>>, <<>>)
       \/ \E done \in BOOLEAN : updateTask(u, id, TRUE, <<>>, <<done>>)
       \/ deleteTask(u, id)

SweepNext ==
  \/ SweepRequest("A")
  \/ \E r \in Runs : Sweep(r)
  \/ Tick

SweepSpec == Init /\ [][SweepNext]_vars

\* The same with the cron run alone: runs follow one another, none overlaps.
CronNext ==
  \/ SweepRequest("A")
  \/ Sweep("cron")
  \/ Tick

CronSpec == Init /\ [][CronNext]_vars

\* ------------------------------------------------------------------ claims
Toggled == Response(200, "Subtask completion status toggled successfully")

\* C1: in every state of the store, a task whose subtasks sequence is not
\* empty and whose subtasks are all completed is itself completed, whichever
\* saving operation (a request's save or the sweep's flag write) wrote it last.
C1_AutoCompletion ==
  \A id \in DOMAIN tasks :
    (Len(tasks[id].subtasks) > 0 /\ AllCompleted(tasks[id].subtasks))
      => tasks[id].is_completed

\* a task all of whose subtasks were completed by requests after the sweep
\* loaded it, and whose flag the sweep then wrote
C1_Witness ==
  \E id \in DOMAIN tasks :
    /\ tasks[id].notification_sent
    /\ Len(tasks[id].subtasks) > 1
    /\ AllCompleted(tasks[id].subtasks)
    /\ tasks[id].is_completed
    /\ resp = NoResponse

\* C2: a toggleSubtaskCompletion that completes a subtask of a task that is
\* not completed leaves the task not completed unless every subtask is
\* completed after it, and completes the task when every one is: completing
\* n subtasks one at a time sets is_completed at the last toggle, not before.
C2_LastToggleCompletes ==
  [][\A u \in Users, id \in TaskIds, sid \in SubIds :
       ( /\ Exists(id)
         /\ tasks[id].user_id = u
         /\ ~tasks[id].is_completed
         /\ \E i \in 1..Len(tasks[id].subtasks) :
              tasks[id].subtasks[i].id = sid /\ ~tasks[id].subtasks[i].is_completed
         /\ toggleSubtaskCompletion(u, id, sid) )
       => /\ Exists(id)'
          /\ tasks'[id].is_completed = AllCompleted(tasks'[id].subtasks)]_vars

\* the toggle that completed the last of several subtasks has just run
C2_Witness ==
  /\ resp = Toggled
  /\ \E id \in DOMAIN tasks :
       /\ Len(tasks[id].subtasks) > 1
       /\ AllCompleted(tasks[id].subtasks)
       /\ tasks[id].is_completed

\* a step of one of the four subtask operations
SubtaskStep ==
  \E u \in Users, id \in TaskIds :
    \/ \E bodyOk \in BOOLEAN, done \in BOOLEAN : addSubtask(u, id, bodyOk, done)
    \/ \E sid \in SubIds :
         \/ \E bodyOk \in BOOLEAN, done \in Opt(BOOLEAN) :
              updateSubtask(u, id, sid, bodyOk, done)
         \/ deleteSubtask(u, id, sid)
         \/ toggleSubtaskCompletion(u, id, sid)

\* C3: no step of addSubtask, updateSubtask, deleteSubtask or
\* toggleSubtaskCompletion turns a completed task into a task that is not
\* completed.
C3_NoAutoUncomplete ==
  [][SubtaskStep =>
       \A id \in DOMAIN tasks :
         tasks[id].is_completed => (Exists(id)' /\ tasks'[id].is_completed)]_vars

\* a completed task one of whose subtasks was just toggled back
C3_Witness ==
  /\ resp = Toggled
  /\ \E id \in DOMAIN tasks :
       /\ tasks[id].is_completed
       /\ Len(tasks[id].subtasks) > 0
       /\ ~AllCompleted(tasks[id].subtasks)

\* the ids of the tasks a run still holds
QueueIds(r) == {runs[r].queue[i].id : i \in 1..Len(runs[r].queue)}

InWindow(id) ==
  /\ tasks[id].due_date # NoDate
  /\ tasks[id].due_date >= now
  /\ tasks[id].due_date <= now + Day

\* C4 (as claimed): an updateTask that changes a task's due_date leaves the
\* stored task with notification_sent = false.
C4_Claim ==
  [][\A u \in Users, id \in TaskIds, due \in Dates, done \in Opt(BOOLEAN) :
       ( /\ Exists(id)
         /\ tasks[id].user_id = u
         /\ tasks[id].due_date # due
         /\ updateTask(u, id, TRUE, <<due>>, done) )
       => ~tasks'[id].notification_sent]_vars

\* C5: once the Mailer has accepted a reminder for a task and the run's flag
\* write for it is over, the task (while it is stored and not rescheduled) has
\* notification_sent = true, neither the sweep's query nor findOverdueTasks
\* returns it, and no later run holds it for dispatch.
C5_NotifiedOnce ==
  \A id \in DOMAIN tasks :
    /\ ( /\ mailed[id] >= 1
         /\ ~(runs["cron"].pc = "save" /\ Head(runs["cron"].queue).id = id) )
       => /\ tasks[id].notification_sent
          /\ id \notin DueSoon
          /\ id \notin findOverdueTasks
    /\ tasks[id].notification_sent => id \notin QueueIds("cron")

\* a task, still due and not completed, that was mailed and flagged by a run
\* that is over
C5_Witness ==
  /\ runs["cron"].pc = "idle"
  /\ resp = NoResponse
  /\ \E id \in DOMAIN tasks :
       /\ mailed[id] = 1
       /\ tasks[id].notification_sent
       /\ ~tasks[id].is_completed
       /\ InWindow(id)

\* C6 (as claimed): the Mailer accepts at most one reminder for a task whose
\* due_date is not changed, also when runs overlap.
C6_Claim == \A id \in TaskIds : mailed[id] <= 1

\* C7: when the Mailer reports failure for the task a run is dispatching, the
\* step writes nothing to the store (the task keeps notification_sent =
\* false), the run drops the task and goes on with the tasks that remain,
\* without the failed one among them; and a scan selects every stored task
\* that is not completed, not notified and due within the window.
C7_FailureSkips ==
  [][\A r \in Runs :
       /\ (runs[r].pc = "send" /\ Send(r, FALSE))
          => LET failed == Head(runs[r].queue).id
                 rest == Tail(runs[r].queue)
             IN /\ tasks' = tasks
                /\ mailed' = mailed
                /\ Exists(failed) => ~tasks'[failed].notification_sent
                /\ runs'[r].queue = rest
                /\ runs'[r].pc = IF rest = <<>> THEN "idle" ELSE "send"
                /\ \A i \in 1..Len(rest) : rest[i].id # failed
       /\ Scan(r)
          => \A id \in DOMAIN tasks :
               ( /\ ~tasks[id].is_completed
                 /\ ~tasks[id].notification_sent
                 /\ InWindow(id) )
               => \E i \in 1..Len(runs'[r].queue) : runs'[r].queue[i].id = id]_vars

\* a run that is dispatching its second task after passing over the first,
\* which is still due, not completed, not notified and was never mailed
C7_Witness ==
  /\ runs["cron"].pc = "send"
  /\ Len(runs["cron"].queue) = 1
  /\ \E id \in DOMAIN tasks :
       /\ id < Head(runs["cron"].queue).id
       /\ mailed[id] = 0
       /\ id \in DueSoon

\* C8 (as claimed): when the flag write of one task throws, the run goes on
\* with the tasks that remain.
C8_Claim ==
  [][\A r \in Runs :
       ( /\ runs[r].pc = "save"
         /\ ~Exists(Head(runs[r].queue).id)
         /\ MarkSent(r) )
       => runs'[r] = NextTask(r)]_vars

\* a request of user u on task id with a body that passes validation, for each
\* of the eight task operations
TaskRequestOn(u, id) ==
  \/ getTask(u, id)
  \/ \E due \in Opt({0}), done \in Opt(BOOLEAN) : updateTask(u, id, TRUE, due, done)
  \/ deleteTask(u, id)
  \/ toggleTaskCompletion(u, id)
  \/ \E done \in BOOLEAN : addSubtask(u, id, TRUE, done)
  \/ \E sid \in SubIds :
       \/ \E done \in Opt(BOOLEAN) : updateSubtask(u, id, sid, TRUE, done)
       \/ deleteSubtask(u, id, sid)
       \/ toggleSubtaskCompletion(u, id, sid)

\* the same with a body that fails validation
InvalidRequestOn(u, id) ==
  \/ updateTask(u, id, FALSE, <<>>, <<>>)
  \/ addSubtask(u, id, FALSE, FALSE)
  \/ \E sid \in SubIds : updateSubtask(u, id, sid, FALSE, <<>>)

\* C9: a task request for a task of another user is answered exactly as one
\* for a task id that is not stored - 404 "Task not found" (400 "Validation
\* failed" when the body is invalid) - and leaves the store as it was.
C9_NotFoundForNonOwner ==
  [][\A u \in Users, id \in TaskIds :
       (~Exists(id) \/ tasks[id].user_id # u)
         => /\ TaskRequestOn(u, id) => (resp' = TaskNotFound /\ tasks' = tasks)
            /\ InvalidRequestOn(u, id) => (resp' = ValidationFailed /\ tasks' = tasks)]_vars

\* every task id is stored, so the 404 just sent answered a user who does not
\* own the task
C9_Witness ==
  /\ resp = TaskNotFound
  /\ DOMAIN tasks = TaskIds
  /\ \E id \in DOMAIN tasks : Len(tasks[id].subtasks) > 0

\* the listings whose pages are compared with their owner
OwnerFilters ==
  [is_completed : Opt(BOOLEAN), priority : {<<>>}, due_date_from : {<<>>},
   due_date_to : {<<>>}, search : {<<>>}, sort_by : {""}, sort_order : {"desc"},
   page : 1..2, limit : 1..2]

Owned(u) == {id \in DOMAIN tasks : tasks[id].user_id = u}

C10_Reads ==
  \A u \in Users :
    /\ \A f \in OwnerFilters :
         \A i \in 1..Len(getTasksData(u, f).tasks) :
           getTasksData(u, f).tasks[i] \in Owned(u)
    /\ \A f \in OwnerFilters : getTasksData(u, f).totalTasks = Cardinality(Owned(u))
    /\ getTaskStatsData(u).totalTasks = Cardinality(Owned(u))
    /\ getTaskStatsData(u).completedTasks + getTaskStatsData(u).pendingTasks
         = Cardinality(Owned(u))
    /\ getTaskStatsData(u).overdueTasks <= Cardinality(Owned(u))
    /\ \A i \in 1..Len(getTasksDueTodayData(u)) :
         getTasksDueTodayData(u)[i] \in Owned(u)

\* any request user u sends
RequestBy(u) ==
  \/ \E bodyOk \in BOOLEAN, due \in Opt({0}) : createTask(u, bodyOk, due, <<>>, <<>>)
  \/ \E f \in ListingInputs : getTasks(u, f)
  \/ getTaskStats(u)
  \/ getTasksDueToday(u)
  \/ \E id \in TaskIds : TaskRequestOn(u, id) \/ InvalidRequestOn(u, id)

\* a stored task that a step deletes or changes belongs to every user whose
\* request the step can be
C10_Writes ==
  \A id \in DOMAIN tasks :
    (~Exists(id)' \/ tasks'[id] # tasks[id])
      => \A u \in Users : RequestBy(u) => tasks[id].user_id = u

\* C10: getTasks, getTaskStats and getTasksDueToday of a user return and count
\* only tasks whose user_id is that user, and no request of a user changes or
\* deletes a task of another user.
C10_OwnerIsolation == []C10_Reads /\ [][C10_Writes]_vars

\* both users own a task, and one of them has just updated theirs
C10_Witness ==
  /\ resp = Response(200, "Task updated successfully")
  /\ \A u \in Users : Owned(u) # {}

\* ------------------------------------------------------------- listings
\* A store that already holds up to ListSize tasks, as a sequence of creations
\* leaves it: ids in creation order, B owning every other-th task (none when
\* other = 0), the oldest `done` tasks completed, the tasks with an even id due
\* today.
StoredTasks(n, other, done) ==
  [id \in 1..n |->
     [user_id |-> IF other # 0 /\ id % other = 0 THEN "B" ELSE "A",
      title |-> <<"a">>,
      description |-> <<>>,
      priority |-> "Low",
      is_completed |-> id <= done,
      due_date |-> IF id % 2 = 0 THEN 0 ELSE NoDate,
      subtasks |-> <<>>,
      notification_sent |-> FALSE]]

PageInit ==
  /\ \E n \in 0..ListSize, other \in {0, 2, 3}, done \in 0..1 :
       /\ tasks = StoredTasks(n, other, done)
       /\ nextId = n + 1
  /\ nextSubId = [id \in 1..ListSize |-> 1]
  /\ now = 0
  /\ resp = NoResponse
  /\ runs = [r \in Runs |-> Idle]
  /\ mailed = [id \in 1..ListSize |-> 0]
  /\ pending = [q \in Handlers |-> <<>>]

\* the listings compared with the sorted result list
PageFilters ==
  [is_completed : Opt(BOOLEAN), priority : {<<>>},
   due_date_from : Opt({0}), due_date_to : {<<>>}, search : {<<>>},
   sort_by : {"", "created_at"}, sort_order : {"asc"},
   page : 1..3, limit : {1, 2, 10}]

\* The listing path: both accounts list their tasks, complete and reopen one
\* of the two oldest tasks and delete the newest task.
PageRequest(u) ==
  \/ \E filters \in {f \in PageFilters : f.is_completed = <<>> /\ f.due_date_from = <<>>
                                        /\ f.sort_by = "" /\ f.limit = 10} :
       getTasks(u, filters)
  \/ \E id \in 1..2 : toggleTaskCompletion(u, id)
  \/ \E id \in DOMAIN tasks : id + 1 = nextId /\ deleteTask(u, id)

PageNext == \E u \in Users : PageRequest(u)

PageSpec == PageInit /\ [][PageNext]_vars

\* the tasks of a listing's query, by the conditions of the request
Selected(u, f) ==
  {id \in DOMAIN tasks :
    /\ tasks[id].user_id = u
    /\ f.is_completed # <<>> => tasks[id].is_completed = f.is_completed[1]
    /\ f.due_date_from # <<>> =>
         tasks[id].due_date # NoDate /\ tasks[id].due_date >= f.due_date_from[1]}

\* x comes before y in the listing's order (ids follow creation time)
Before(f, x, y) ==
  IF f.sort_by = "created_at" /\ f.sort_order = "asc" THEN x < y ELSE x > y

\* C11: the page p of a listing with limit l holds exactly the elements at
\* positions (p-1)*l .. p*l-1 of the owner's sorted result list, hasPrevPage
\* is p > 1 and hasNextPage is p < totalPages; an owner of 15 tasks who lists
\* them with no filter, limit 10 and page 2 gets 5 tasks, no next page and a
\* previous page.
C11_Pagination ==
  \A u \in Users, f \in PageFilters :
    LET data == getTasksData(u, f)
        all == Selected(u, f)
        skip == (f.page - 1) * f.limit
        rest == IF Cardinality(all) > skip THEN Cardinality(all) - skip ELSE 0
    IN /\ Len(data.tasks) = IF rest < f.limit THEN rest ELSE f.limit
       /\ \A i \in 1..Len(data.tasks) :
            /\ data.tasks[i] \in all
            /\ Cardinality({y \in all : Before(f, y, data.tasks[i])}) = skip + i - 1
       /\ data.hasPrevPage = (f.page > 1)
       /\ data.hasNextPage = (f.page < data.totalPages)
       /\ ( /\ Cardinality({id \in DOMAIN tasks : tasks[id].user_id = u}) = 15
            /\ f.is_completed = <<>> /\ f.due_date_from = <<>>
            /\ f.limit = 10 /\ f.page = 2 )
          => (Len(data.tasks) = 5 /\ ~data.hasNextPage /\ data.hasPrevPage)

\* account A owns 15 tasks and has just listed them
C11_Witness ==
  /\ resp = Response(200, "")
  /\ Cardinality({id \in DOMAIN tasks : tasks[id].user_id = "A"}) = 15
  /\ Len(getTasksData("A", [is_completed |-> <<>>, priority |-> <<>>,
                            due_date_from |-> <<>>, due_date_to |-> <<>>,
                            search |-> <<>>, sort_by |-> "", sort_order |-> "asc",
                            page |-> 2, limit |-> 10]).tasks) = 5

\* C12: totalTasks, totalPages and hasNextPage of a listing are computed from
\* the number of all tasks of the owner, whatever filters select the page.
C12_CountIgnoresFilters ==
  \A u \in Users, f \in PageFilters :
    LET data == getTasksData(u, f)
        plain == getTasksData(u, [f EXCEPT !.is_completed = <<>>,
                                           !.due_date_from = <<>>])
        owned == Cardinality({id \in DOMAIN tasks : tasks[id].user_id = u})
    IN /\ data.totalTasks = owned
       /\ data.totalPages * f.limit >= owned
       /\ (data.totalPages - 1) * f.limit < owned \/ data.totalPages = 0
       /\ data.hasNextPage = (f.page * f.limit < owned)
       /\ data.totalTasks = plain.totalTasks
       /\ data.totalPages = plain.totalPages
       /\ data.hasNextPage = plain.hasNextPage

\* account A has listed its tasks, and a filter on is_completed selects some
\* but not all of them
C12_Witness ==
  /\ resp = Response(200, "")
  /\ \E f \in PageFilters :
       /\ f.is_completed = <<TRUE>>
       /\ Selected("A", f) # {}
       /\ Cardinality(Selected("A", f)) < getTasksData("A", f).totalTasks
       /\ Len(getTasksData("A", f).tasks) > 0

\* C13: a createTask whose due_date lies before the current time is answered
\* with the validation error and stores nothing: the collection and the next
\* task id are as before.
C13_PastDueRejected ==
  [][\A u \in Users, due \in Dates, flags \in {<<>>, <<FALSE>>} :
       (due < now /\ createTask(u, TRUE, <<due>>, flags, <<>>))
         => /\ resp' = ValidationFailed
            /\ tasks' = tasks
            /\ nextId' = nextId]_vars

\* a day has passed, a request was rejected by the validator, and no task was
\* ever stored
C13_Witness ==
  /\ resp = ValidationFailed
  /\ now > 0
  /\ nextId = 1
  /\ tasks = <<>>

\* C14 (as claimed): an updateTask of the owner that sets due_date to a time
\* before the current time is accepted and the date is stored.
C14_Claim ==
  [][\A u \in Users, id \in TaskIds, due \in Dates :
       ( /\ Exists(id)
         /\ tasks[id].user_id = u
         /\ due < now
         /\ updateTask(u, id, TRUE, <<due>>, <<>>) )
       => /\ resp' = Response(200, "Task updated successfully")
          /\ tasks'[id].due_date = due]_vars

\* two subtasks, exactly one of them completed
HalfDone(subtasks) ==
  /\ Len(subtasks) = 2
  /\ subtasks[1].is_completed # subtasks[2].is_completed

\* the counters of getTaskStats partition the owner's tasks, and the only task
\* of an owner, half done and not completed, is counted as pending
C15_Counts ==
  \A u \in Users :
    LET stats == getTaskStatsData(u)
    IN /\ stats.totalTasks = stats.completedTasks + stats.pendingTasks
       /\ \A id \in DOMAIN tasks :
            ( /\ {t \in DOMAIN tasks : tasks[t].user_id = u} = {id}
              /\ HalfDone(tasks[id].subtasks)
              /\ ~tasks[id].is_completed )
            => (stats.pendingTasks = 1 /\ stats.completedTasks = 0)

\* a task that a creation or a subtask operation leaves half done is not
\* completed by that step
C15_Step ==
  \A id \in TaskIds :
    ( /\ Exists(id)'
      /\ HalfDone(tasks'[id].subtasks)
      /\ \/ ~Exists(id)
         \/ Exists(id) /\ ~tasks[id].is_completed /\ SubtaskStep )
    => ~tasks'[id].is_completed

\* C15: in every state totalTasks = completedTasks + pendingTasks, and a task
\* with two subtasks of which exactly one is completed, and which was not
\* completed by a task-level request, is not completed and is counted under
\* pendingTasks, not under completedTasks.
C15_StatsPartition == []C15_Counts /\ [][C15_Step]_vars

\* the only task of account A has two subtasks, one of them just toggled to
\* completed, and is not completed
C15_Witness ==
  /\ resp = Toggled
  /\ \E id \in DOMAIN tasks :
       /\ HalfDone(tasks[id].subtasks)
       /\ ~tasks[id].is_completed
       /\ getTaskStatsData("A").pendingTasks = 1
       /\ getTaskStatsData("A").completedTasks = 0

\* C16 (as claimed): overdueTasks of getTaskStats is the number of the owner's
\* tasks whose due_date is set and before the current time and that are not
\* completed; it agrees with the isOverdue virtual, and a task without
\* due_date is never overdue.
C16_Claim ==
  /\ \A id \in DOMAIN tasks :
       /\ isOverdue(id) <=> ( /\ tasks[id].due_date # NoDate
                              /\ tasks[id].due_date < now
                              /\ ~tasks[id].is_completed )
       /\ tasks[id].due_date = NoDate => ~isOverdue(id)
  /\ \A u \in Users :
       getTaskStatsData(u).overdueTasks =
         Cardinality({id \in DOMAIN tasks : tasks[id].user_id = u /\ isOverdue(id)})

\* a sequence without its last element
Front(seq) == SubSeq(seq, 1, Len(seq) - 1)

SubtaskIdsOf(subtasks) == {subtasks[i].id : i \in 1..Len(subtasks)}

\* C17: addSubtask appends one subtask, with an id no other subtask of the
\* task has, after the subtasks the task had; deleteSubtask of the subtask
\* added last removes it and nothing else.  So an add followed by the delete
\* of the subtask just added leaves the subtasks sequence as it was before
\* the add: same subtasks, same order, same completion flags.
C17_AddDeleteRoundTrip ==
  [][\A u \in Users, id \in TaskIds :
       (Exists(id) /\ tasks[id].user_id = u)
       => LET before == tasks[id].subtasks
          IN /\ \A done \in BOOLEAN :
                  (resp'.status = 201 /\ addSubtask(u, id, TRUE, done))
                  => /\ Exists(id)'
                     /\ Len(tasks'[id].subtasks) = Len(before) + 1
                     /\ Front(tasks'[id].subtasks) = before
                     /\ tasks'[id].subtasks[Len(before) + 1].id \notin SubtaskIdsOf(before)
             /\ \A sid \in SubIds :
                  ( /\ Len(before) > 0
                    /\ before[Len(before)].id = sid
                    /\ sid \notin SubtaskIdsOf(Front(before))
                    /\ deleteSubtask(u, id, sid) )
                  => (Exists(id)' /\ tasks'[id].subtasks = Front(before))]_vars

\* the second subtask of a task was added and then deleted: the first is
\* all the task has again
C17_Witness ==
  /\ resp = Response(200, "Subtask deleted successfully")
  /\ \E id \in DOMAIN tasks :
       /\ Len(tasks[id].subtasks) = 1
       /\ tasks[id].subtasks[1].id = 1
       /\ nextSubId[id] = 3

\* C18 (as claimed): toggleTaskCompletion of the owner leaves the task with
\* the negation of the is_completed it had.
C18_Claim ==
  [][\A u \in Users, id \in TaskIds :
       (Exists(id) /\ tasks[id].user_id = u /\ toggleTaskCompletion(u, id))
       => (Exists(id)' /\ tasks'[id].is_completed = ~tasks[id].is_completed)]_vars

\* C18 (amended): toggleTaskCompletion of the owner leaves the task with the
\* negation of the is_completed it had, except that a task with a non-empty
\* subtasks sequence all of whose subtasks are completed is completed after
\* the call; nothing else of the task changes.
C18_ToggleFlips ==
  [][\A u \in Users, id \in TaskIds :
       (Exists(id) /\ tasks[id].user_id = u /\ toggleTaskCompletion(u, id))
       => /\ Exists(id)'
          /\ tasks'[id].is_completed =
               IF Len(tasks[id].subtasks) > 0 /\ AllCompleted(tasks[id].subtasks)
               THEN TRUE ELSE ~tasks[id].is_completed
          /\ tasks'[id] = [tasks[id] EXCEPT !.is_completed = tasks'[id].is_completed]
          /\ resp' = Response(200, "")]_vars

\* a toggle has just answered for a task all of whose subtasks are completed:
\* the task is completed
C18_Witness ==
  /\ resp = Response(200, "")
  /\ \E id \in DOMAIN tasks :
       /\ Len(tasks[id].subtasks) > 0
       /\ AllCompleted(tasks[id].subtasks)
       /\ tasks[id].is_completed

\* C19: toggleTaskCompletion and updateTask of the owner, whatever the body
\* sets (is_completed = true included), leave the task's subtasks sequence,
\* and so every subtask's is_completed, as they were.  (Both answer the owner
\* of a stored task with status 200, or 400 for a past due date, which stores
\* nothing.)
C19_NoCascade ==
  [][\A u \in Users, id \in TaskIds :
       ( /\ Exists(id)
         /\ tasks[id].user_id = u
         /\ resp'.status = 200
         /\ \/ toggleTaskCompletion(u, id)
            \/ \E due \in Opt(Dates), done \in Opt(BOOLEAN) :
                 updateTask(u, id, TRUE, due, done) )
       => (Exists(id)' /\ tasks'[id].subtasks = tasks[id].subtasks)]_vars

\* an update has completed a task that has a subtask which is not completed
C19_Witness ==
  /\ resp = Response(200, "Task updated successfully")
  /\ \E id \in DOMAIN tasks :
       /\ tasks[id].is_completed
       /\ Len(tasks[id].subtasks) > 0
       /\ \E i \in 1..Len(tasks[id].subtasks) : ~tasks[id].subtasks[i].is_completed

\* ------------------------------------------------------------ subtask ids
\* One task at a time, created from a body whose subtasks may carry their own
\* _id, then changed by the subtask operations and deleted.
IdRequest(u) ==
  \/ \E flags \in SubtaskFlags :
       \E ids \in BodyIds(flags) :
         DOMAIN tasks = {} /\ createTask(u, TRUE, <<>>, flags, ids)
  \/ \E id \in TaskIds :
       \/ deleteTask(u, id)
       \/ \E done \in BOOLEAN : addSubtask(u, id, TRUE, done)
       \/ \E sid \in SubIds :
            \/ \E done \in Opt(BOOLEAN) : updateSubtask(u, id, sid, TRUE, done)
            \/ deleteSubtask(u, id, sid)

IdNext == IdRequest("A")

IdSpec == Init /\ [][IdNext]_vars

\* C20 (as claimed): in every state the ids of the subtasks of one task are
\* pairwise distinct.
C20_Claim ==
  \A id \in DOMAIN tasks :
    \A i, j \in 1..Len(tasks[id].subtasks) :
      i # j => tasks[id].subtasks[i].id # tasks[id].subtasks[j].id

\* C21: a task is created with the authenticated caller as user_id and with
\* notification_sent = false, and no later step - a request or a step of the
\* sweep - changes the user_id of a stored task.
C21_OwnerBound ==
  [][/\ \A id \in TaskIds :
          (Exists(id) /\ Exists(id)') => tasks'[id].user_id = tasks[id].user_id
     /\ \A u \in Users :
          ( /\ resp'.status = 201
            /\ \E due \in Opt(Dates), flags \in SubtaskFlags :
                 createTask(u, TRUE, due, flags, <<>>) )
          => /\ ~Exists(nextId) /\ nextId \in DOMAIN tasks'
             /\ tasks'[nextId].user_id = u
             /\ ~tasks'[nextId].notification_sent]_vars

\* a task of account A that the sweep has flagged and a request has then
\* updated
C21_Witness ==
  /\ resp = Response(200, "Task updated successfully")
  /\ \E id \in DOMAIN tasks :
       /\ tasks[id].user_id = "A"
       /\ tasks[id].notification_sent
       /\ Len(tasks[id].subtasks) > 0

\* the ids of the tasks that were stored once and are deleted now
Deleted == {id \in TaskIds : id < nextId /\ ~Exists(id)}

\* what the three listing requests of user u show of task id
Listed(u, id) ==
  \/ \E f \in OwnerFilters :
       \E i \in 1..Len(getTasksData(u, f).tasks) : getTasksData(u, f).tasks[i] = id
  \/ \E i \in 1..Len(getTasksDueTodayData(u)) : getTasksDueTodayData(u)[i] = id

C22_Gone ==
  \A u \in Users :
    /\ \A id \in Deleted : ~Listed(u, id)
    /\ getTaskStatsData(u).totalTasks
         = Cardinality({id \in TaskIds \ Deleted : Exists(id) /\ tasks[id].user_id = u})

C22_Step ==
  \A u \in Users, id \in TaskIds :
    /\ (findOne(id, u) /\ deleteTask(u, id))
         => /\ id \notin DOMAIN tasks'
            /\ \A t \in DOMAIN tasks \ {id} : t \in DOMAIN tasks' /\ tasks'[t] = tasks[t]
    /\ id \in Deleted
         => /\ id \notin DOMAIN tasks'
            /\ TaskRequestOn(u, id) => (resp' = TaskNotFound /\ tasks' = tasks)
    /\ (~Exists(id) /\ deleteTask(u, id)) => (resp' = TaskNotFound /\ tasks' = tasks)

\* C22: a successful deleteTask removes the task, subtasks included, and
\* nothing else; the id never comes back, so every later get, update, delete,
\* toggle or subtask operation on it answers 404 "Task not found" and changes
\* nothing; a deleted task is in no listing and no count; and deleteTask of an
\* id that is not stored answers 404 and changes no stored task.
C22_DeletionPermanent == []C22_Gone /\ [][C22_Step]_vars

\* every task ever created has been deleted, and a request for one of them was
\* just answered 404
C22_Witness ==
  /\ resp = TaskNotFound
  /\ DOMAIN tasks = {}
  /\ nextId = MaxTasks + 1

\* a request that carries a title, the rest of its body being valid
TitledRequest(u, title) ==
  \/ createTask(u, TitleValid(title), <<>>, <<>>, <<>>)
  \/ \E id \in TaskIds :
       \/ updateTask(u, id, TitleValid(title), <<>>, <<>>)
       \/ addSubtask(u, id, TitleValid(title), FALSE)
       \/ \E sid \in SubIds : updateSubtask(u, id, sid, TitleValid(title), <<>>)

C26_SubtaskNotFound ==
  [][\A u \in Users, id \in TaskIds, sid \in SubIds :
       ( /\ Exists(id)
         /\ tasks[id].user_id = u
         /\ \A i \in 1..Len(tasks[id].subtasks) : tasks[id].subtasks[i].id # sid
         /\ \/ \E done \in Opt(BOOLEAN) : updateSubtask(u, id, sid, TRUE, done)
            \/ deleteSubtask(u, id, sid)
            \/ toggleSubtaskCompletion(u, id, sid) )
       => /\ resp' = SubtaskNotFound
          /\ tasks' = tasks]_vars

\* the 404 answered a request on a task that has a subtask, under another id,
\* and has been notified
C26_Witness ==
  /\ resp = SubtaskNotFound
  /\ \E id \in DOMAIN tasks :
       /\ Len(tasks[id].subtasks) > 0
       /\ ~tasks[id].subtasks[1].is_completed
       /\ tasks[id].notification_sent

\* a task a scan at this moment may take: due within [now, now + 24h], not
\* completed, not notified, of an owner whose email resolves
Eligible(id) ==
  /\ Exists(id)
  /\ tasks[id].due_date >= now
  /\ tasks[id].due_date - now <= 1
  /\ tasks[id].is_completed = FALSE
  /\ tasks[id].notification_sent = FALSE
  /\ tasks[id].user_id \in Users

RaceRequest(u) ==
  \/ \E due \in Opt({0}), flags \in SubtaskFlags :
       DOMAIN tasks = {} /\ createTask(u, TRUE, due, flags, <<>>)
  \/ \E q \in Handlers, id \in TaskIds, sid \in SubIds : LoadToggle(q, u, id, sid)
  \/ \E q \in Handlers : SaveToggle(q)

RaceNext ==
  \/ RaceRequest("A")
  \/ Sweep("cron")

RaceSpec == Init /\ [][RaceNext]_vars

\* C29 (as claimed): once the overlapping requests have all saved, a task
\* whose subtasks are all completed is completed.
C29_Claim ==
  (\A q \in Handlers : pending[q] = <<>>)
    => \A id \in DOMAIN tasks :
         (Len(tasks[id].subtasks) > 0 /\ AllCompleted(tasks[id].subtasks))
           => tasks[id].is_completed

\* C28 (as claimed): the flag write of a run sets notification_sent of the
\* task it is at and changes no other field of it and no other task, and the
\* scan and the send write nothing to the store - whatever requests did to
\* the task since the scan.
C28_Claim ==
  [][\A r \in Runs :
       /\ (runs[r].pc = "save" /\ MarkSent(r))
            => /\ DOMAIN tasks' = DOMAIN tasks
               /\ \A id \in DOMAIN tasks :
                    tasks'[id] = IF id = Head(runs[r].queue).id
                                 THEN [tasks[id] EXCEPT !.notification_sent = TRUE]
                                 ELSE tasks[id]
       /\ (Scan(r) \/ \E ok \in BOOLEAN : Send(r, ok)) => tasks' = tasks]_vars

\* ------------------------------------------------- filtered listings
\* A store of up to MaxTasks tasks that differ in what the filters look at:
\* owner, completion and due date as in StoredTasks, and any priority, a title
\* of one character and no description or the description "B".
SearchInit ==
  /\ \E n \in 0..MaxTasks, other \in {0, 2}, done \in 0..1 :
       \E prio \in [1..n -> Priorities], title \in [1..n -> Texts(1) \ {<<>>}],
          desc \in [1..n -> {<<>>, <<"B">>}] :
         /\ tasks = [id \in 1..n |->
                       [StoredTasks(n, other, done)[id] EXCEPT
                          !.priority = prio[id],
                          !.title = title[id],
                          !.description = desc[id]]]
         /\ nextId = n + 1
  /\ nextSubId = [id \in TaskIds |-> 1]
  /\ now = 0
  /\ resp = NoResponse
  /\ runs = [r \in Runs |-> Idle]
  /\ mailed = [id \in TaskIds |-> 0]
  /\ pending = [q \in Handlers |-> <<>>]

\* listings of one page that holds every task: any combination of the filters,
\* in the default order
SearchFilters ==
  [is_completed : Opt(BOOLEAN), priority : Opt(Priorities),
   due_date_from : Opt({0}), due_date_to : Opt({0}),
   search : Opt(Texts(1) \ {<<>>}),
   sort_by : {""}, sort_order : {"desc"}, page : {1}, limit : {10}]

\* listings of one page that holds every task: no filter, any order
SortFilters ==
  [is_completed : {<<>>}, priority : {<<>>}, due_date_from : {<<>>},
   due_date_to : {<<>>}, search : {<<>>},
   sort_by : {"", "priority"}, sort_order : {"asc", "desc"},
   page : {1}, limit : {10}]

\* both accounts list their tasks, and complete and reopen them
SearchRequest(u) ==
  \/ \E filters \in SortFilters : getTasks(u, filters)
  \/ \E id \in TaskIds : toggleTaskCompletion(u, id)

SearchNext == \E u \in Users : SearchRequest(u)

SearchSpec == SearchInit /\ [][SearchNext]_vars

\* s occurs in text as a substring, case ignored
Contains(text, s) ==
  \E k \in 0..(Len(text) - Len(s)) :
    \A i \in 1..Len(s) : Lower(text[k + i]) = Lower(s[i])

\* C24 (as claimed): a listing that holds every task on its page returns
\* exactly the user's tasks that pass every filter supplied - priority equal,
\* is_completed equal, due_date from due_date_from to due_date_to, and the
\* search string a substring, case ignored, of the title or the description.
C24_Claim ==
  \A u \in Users, f \in SearchFilters :
    LET result == findByUserWithFilters(u, f)
    IN {result[i] : i \in 1..Len(result)} =
         {id \in DOMAIN tasks :
            /\ tasks[id].user_id = u
            /\ f.priority # <<>> => tasks[id].priority = f.priority[1]
            /\ f.is_completed # <<>> => tasks[id].is_completed = f.is_completed[1]
            /\ f.due_date_from # <<>> =>
                 tasks[id].due_date # NoDate /\ tasks[id].due_date >= f.due_date_from[1]
            /\ f.due_date_to # <<>> =>
                 tasks[id].due_date # NoDate /\ tasks[id].due_date <= f.due_date_to[1]
            /\ f.search # <<>> =>
                 \/ Contains(tasks[id].title, f.search[1])
                 \/ Contains(tasks[id].description, f.search[1])}

\* the priority names in the order of their strings
PriorityOrder == <<"High", "Low", "Medium">>
PriorityIndex(id) == CHOOSE k \in 1..3 : PriorityOrder[k] = tasks[id].priority

SendTo(id) ==
  /\ runs["cron"].pc = "send"
  /\ Head(runs["cron"].queue).id = id
  /\ Send("cron", TRUE)

\* CronSpec with its scheduling: cron.schedule starts a run whenever none is
\* under way, a run that has started goes on to its next await, and the Mailer
\* does not fail for ever on the reminders of one task.
LiveSpec ==
  /\ CronSpec
  /\ WF_vars(Scan("cron"))
  /\ WF_vars(\E ok \in BOOLEAN : Send("cron", ok))
  /\ WF_vars(MarkSent("cron"))
  /\ \A id \in TaskIds : SF_vars(SendTo(id))

\* C30: a task that a run has just found - not completed, not notified, due
\* within [now, now + 24h] - is eventually marked notification_sent, unless
\* before that it is completed, deleted or no longer due within the window.
C30_ReminderLiveness ==
  \A id \in TaskIds :
    ( /\ runs["cron"].pc = "send"
      /\ id \in QueueIds("cron")
      /\ id \in DueSoon )
    ~> ( \/ ~Exists(id)
         \/ tasks[id].notification_sent
         \/ tasks[id].is_completed
         \/ ~InWindow(id) )

\* the second task of the store, behind the first in every scan, has been
\* mailed once and marked, still due and not completed
C30_Witness ==
  /\ runs["cron"] = Idle
  /\ Exists(2)
  /\ tasks[2].notification_sent
  /\ mailed[2] = 1
  /\ ~tasks[2].is_completed
  /\ InWindow(2)
  /\ Exists(1) /\ ~tasks[1].notification_sent /\ 1 \in DueSoon

====
